---- MODULE Spec2Model ----
(***************************************************************************)
(* Model of the resume analysis service (src/main.py): the /analyze        *)
(* handler with its content-addressed Redis cache, the two completion      *)
(* calls and the defensive parsing of their output.                        *)
(*                                                                         *)
(* Text is a sequence of one-character strings.  A model reply is a        *)
(* sequence of tokens (a fence marker, the word json, white space, prose,  *)
(* or one complete JSON document).  A Python value that json.loads can     *)
(* return is a set of <<key, type, int, text>> atoms: a dict has one atom  *)
(* per key, a non-dict value has the single key "".                        *)
(***************************************************************************)
EXTENDS Integers, Sequences, FiniteSets, TLC

----------------------------------------------------------------------------
(* Bounds of the model *)

\* seconds that pass in one step of the clock
TickSecs == 1800
\* longest token sequence given to the fence-strip-and-parse step
MaxOut == 3
\* longest text given to get_cache_key
MaxKeyLen == 2
MaxOver == 1

(* Program constants *)

\* r_client.setex(cache_key, 3600, ...)
TTL == 3600
\* resume_text[:200]
PreviewLen == 200
\* resume_text[:2500]
ExtractDocLen == 2500
\* resume_text[:2000]
MatchDocLen == 2000
\* jd_text[:1000]
MatchJDLen == 1000

\* request slots; Spec runs requests one at a time in slot r1
Reqs == {"r1", "r2"}
SeqReqs == {"r1"}

----------------------------------------------------------------------------
(* Python values *)

\* str | None
None == [some |-> FALSE, s |-> <<>>]
Some(s) == [some |-> TRUE, s |-> s]

\* s[:n]
Take(s, n) == SubSeq(s, 1, IF Len(s) < n THEN Len(s) ELSE n)

\* {}
EmptyDict == {}

\* {"score": 0, "analysis": "AI Parsing Error"}
MatchFallback ==
    {<<"score", "int", 0, <<>>>>, <<"analysis", "str", 0, <<"AI Parsing Error">>>>}

\* {"raw_text": extracted_info_str}
ExtractFallback(reply) ==
    IF reply.some THEN {<<"raw_text", "str", 0, reply.s>>}
                  ELSE {<<"raw_text", "null", 0, <<>>>>}

----------------------------------------------------------------------------
(* Model output: tokens and the JSON documents among them *)

\* the three-backquote fence marker
TICKS == "<fence>"
JSONWORD == "json"
WS == "\n"
PROSE == "Sorry, I cannot read this resume."
InfoJSON == "{\"name\":\"Jane\",\"phone\":\"555-1234\",\"email\":\"j@x.io\",\"education\":\"BSc\",\"experience_years\":5,\"skills\":[\"Go\"]}"
MatchJSON == "{\"score\":85,\"analysis\":\"Good fit\"}"
BadScoreJSON == "{\"score\":150,\"analysis\":\"Great\"}"
ListJSON == "[]"

JSONDocs == {InfoJSON, MatchJSON, BadScoreJSON, ListJSON}
Tokens == {TICKS, JSONWORD, WS, PROSE} \cup JSONDocs

\* the value json.loads returns for each JSON document
JSONValue(tok) ==
    CASE tok = InfoJSON ->
           {<<"name", "str", 0, <<"Jane">>>>, <<"phone", "str", 0, <<"555-1234">>>>,
            <<"email", "str", 0, <<"j@x.io">>>>, <<"education", "str", 0, <<"BSc">>>>,
            <<"experience_years", "int", 5, <<>>>>, <<"skills", "list", 0, <<"Go">>>>}
      [] tok = MatchJSON ->
           {<<"score", "int", 85, <<>>>>, <<"analysis", "str", 0, <<"Good fit">>>>}
      [] tok = BadScoreJSON ->
           {<<"score", "int", 150, <<>>>>, <<"analysis", "str", 0, <<"Great">>>>}
      [] tok = ListJSON -> {<<"", "list", 0, <<>>>>}

\* json.loads(s) succeeds: one JSON document, white space allowed around it
json_loads_ok(s) ==
    \E i \in 1..Len(s) :
        /\ s[i] \in JSONDocs
        /\ \A j \in 1..Len(s) : j # i => s[j] = WS

\* json.loads(s) where it succeeds
json_loads(s) ==
    JSONValue(s[CHOOSE i \in 1..Len(s) : s[i] \in JSONDocs])

\* str.replace(pat, ""): every non-overlapping occurrence, left to right
RECURSIVE replace(_, _)
replace(s, pat) ==
    IF Len(s) < Len(pat) THEN s
    ELSE IF SubSeq(s, 1, Len(pat)) = pat
         THEN replace(SubSeq(s, Len(pat) + 1, Len(s)), pat)
         ELSE <<Head(s)>> \o replace(Tail(s), pat)

\* variant: the two replacements in the other order
clean_json_str_FenceFirst(s) == replace(replace(s, <<TICKS>>), <<TICKS, JSONWORD>>)

\* .replace(fence + "json", "").replace(fence, "")
clean_json_str(s) == replace(replace(s, <<TICKS, JSONWORD>>), <<TICKS>>)

\* what the body of the try block raises: None has no .replace, and
\* json.loads rejects text that is not one JSON document
parse_exception(reply) ==
    IF ~reply.some THEN "AttributeError"
    ELSE IF ~json_loads_ok(clean_json_str(reply.s)) THEN "JSONDecodeError"
    ELSE "none"

\* variant: except json.JSONDecodeError in place of the bare except
except_catches_JSONOnly(exc) == exc = "JSONDecodeError"

\* the bare except clause catches every exception
except_catches(exc) == TRUE

\* an exception leaves the try statement
parse_escapes(reply) ==
    parse_exception(reply) # "none" /\ ~except_catches(parse_exception(reply))

\* lines 111-116
parse_extracted_info(reply) ==
    IF parse_exception(reply) # "none" THEN ExtractFallback(reply)
    ELSE json_loads(clean_json_str(reply.s))

\* lines 133-137
parse_match_result(reply) ==
    IF parse_exception(reply) # "none" THEN MatchFallback
    ELSE json_loads(clean_json_str(reply.s))

----------------------------------------------------------------------------
(* extract_text_from_pdf *)

Whitespace == {" ", "\n", "\t"}

RECURSIVE JoinPages(_)
JoinPages(pages) ==
    IF pages = <<>> THEN <<>>
    ELSE (IF Head(pages).some /\ Head(pages).s # <<>>
          THEN Head(pages).s \o <<"\n">> ELSE <<>>) \o JoinPages(Tail(pages))

\* the text without its leading white space
DropWS(s) ==
    IF \A i \in 1..Len(s) : s[i] \in Whitespace THEN <<>>
    ELSE SubSeq(s,
                CHOOSE i \in 1..Len(s) :
                    s[i] \notin Whitespace /\ \A j \in 1..(i - 1) : s[j] \in Whitespace,
                Len(s))

IsKept(c) == c # ""

\* re.sub: every run of white space becomes one space
CollapseWS(s) ==
    SelectSeq([i \in 1..Len(s) |->
                  IF s[i] \notin Whitespace THEN s[i]
                  ELSE IF i > 1 /\ s[i - 1] \in Whitespace THEN "" ELSE " "],
              IsKept)

\* the text without its trailing white space
DropWSRight(s) ==
    IF \A i \in 1..Len(s) : s[i] \in Whitespace THEN <<>>
    ELSE SubSeq(s, 1,
                CHOOSE i \in 1..Len(s) :
                    s[i] \notin Whitespace
                    /\ \A j \in (i + 1)..Len(s) : s[j] \in Whitespace)

\* .strip()
Strip(s) == DropWSRight(DropWS(s))

extract_text_from_pdf(f) == Strip(CollapseWS(JoinPages(f.pages)))

----------------------------------------------------------------------------
(* get_cache_key and the serialized response *)

\* hashlib.md5(raw).hexdigest(), taken as collision-free
md5(raw) == <<"md5">> \o raw

get_cache_key(text, jd) == md5(text \o jd)

NoResp == [resume_text_preview |-> <<>>, extracted_info |-> {}, match_result |-> {}]

\* variant: the match_result is left out of the serialization
json_dumps_NoMatch(resp) ==
    <<"json", resp.resume_text_preview, resp.extracted_info, {}>>

\* json.dumps(response_data), line 148
json_dumps(resp) ==
    <<"json", resp.resume_text_preview, resp.extracted_info, resp.match_result>>

json_loads_response(blob) ==
    [resume_text_preview |-> blob[2], extracted_info |-> blob[3], match_result |-> blob[4]]

NoBlob == [some |-> FALSE, s |-> json_dumps(NoResp)]

----------------------------------------------------------------------------
(* Inputs *)

NoFile == [present |-> FALSE, ok |-> FALSE, pages |-> <<>>]
CorruptPDF == [present |-> TRUE, ok |-> FALSE, pages |-> <<>>]
PdfAB == [present |-> TRUE, ok |-> TRUE, pages |-> <<Some(<<"a", "b">>)>>]
PdfA == [present |-> TRUE, ok |-> TRUE, pages |-> <<Some(<<"a">>)>>]
PdfASpaced ==
    [present |-> TRUE, ok |-> TRUE,
     pages |-> <<Some(<<" ", "a", "\t", "\n">>), None, Some(<<>>)>>]

Uploads == {NoFile, CorruptPDF, PdfAB, PdfA, PdfASpaced}
JDs == {<<>>, <<"b">>}

ExtractReplies == {None, Some(<<TICKS, JSONWORD, WS, InfoJSON, WS, TICKS>>), Some(<<PROSE>>)}
MatchReplies == {None, Some(<<MatchJSON>>), Some(<<BadScoreJSON>>)}

Hosts == {"None", "", "cache.internal"}

\* lines 23-28: r_client stays None unless a host is configured and
\* redis.Redis(...) returns
InitClient(host, ctorRaises) ==
    IF host # "" /\ host # "None" /\ ~ctorRaises THEN "Redis" ELSE "None"

----------------------------------------------------------------------------
VARIABLES
    r_client,            \* "None" or "Redis"
    storeUp,             \* the Redis server answers
    store,               \* set of [key, val, ttl]: the entries of the server
    pc,                  \* per request: idle, lookup, extract, match, write, done
    jd_text,
    resume_text,
    cached_data,
    extracted_info_str,
    extracted_info,
    match_res_str,
    match_result,
    sent,                \* prompts given to call_ai_service by the request
    wrote,               \* number of setex calls of the request
    result,              \* what the request returned
    ops,                 \* the calls the request made to Redis and to the model, in order
    upload,              \* what the request brought: missing, unreadable, readable
    prior,               \* the previous run of the slot, when its input was the same
    age,                 \* seconds since the previous run of the slot returned
    keyArgs, keyRes,     \* get_cache_key on two pairs
    sanArgs, sanRes,     \* the fence-strip-and-parse step on one reply
    startup              \* what the process found when it started, where tracked

reqVars == <<pc, jd_text, resume_text, cached_data, extracted_info_str,
             extracted_info, match_res_str, match_result, sent, wrote, result,
             ops, upload>>
pureVars == <<keyArgs, keyRes, sanArgs, sanRes, startup>>
vars == <<r_client, storeUp, store, reqVars, prior, age, pureVars>>

NoResult == [status |-> 0, err |-> "", resp |-> NoResp]
NoPrior == [valid |-> FALSE, wrote |-> FALSE, resp |-> NoResp, sent |-> <<>>, age |-> 0]

NoKeyArgs == [d1 |-> <<>>, j1 |-> <<>>, d2 |-> <<>>, j2 |-> <<>>]
NoKeyRes == [done |-> FALSE, k1 |-> <<>>, k2 |-> <<>>]
NoSanArgs == [site |-> "extract", raw |-> None]
NoSanRes == [done |-> FALSE, raised |-> FALSE, value |-> {}]

InitReqs ==
    /\ pc = [r \in Reqs |-> "idle"]
    /\ jd_text = [r \in Reqs |-> <<>>]
    /\ resume_text = [r \in Reqs |-> <<>>]
    /\ cached_data = [r \in Reqs |-> NoBlob]
    /\ extracted_info_str = [r \in Reqs |-> None]
    /\ extracted_info = [r \in Reqs |-> {}]
    /\ match_res_str = [r \in Reqs |-> None]
    /\ match_result = [r \in Reqs |-> {}]
    /\ sent = [r \in Reqs |-> <<>>]
    /\ wrote = [r \in Reqs |-> 0]
    /\ result = [r \in Reqs |-> NoResult]
    /\ ops = [r \in Reqs |-> <<>>]
    /\ upload = [r \in Reqs |-> "none"]
    /\ prior = [r \in Reqs |-> NoPrior]
    /\ age = [r \in Reqs |-> 0]

InitPure ==
    /\ keyArgs = NoKeyArgs
    /\ keyRes = NoKeyRes
    /\ sanArgs = NoSanArgs
    /\ sanRes = NoSanRes
    /\ startup = "untracked"

Init ==
    /\ r_client \in {InitClient(h, x) : h \in Hosts, x \in BOOLEAN}
    /\ storeUp \in BOOLEAN
    /\ store = {}
    /\ InitReqs
    /\ InitPure

----------------------------------------------------------------------------
(* The Redis server *)

\* variant: GET answers with whatever entry the server holds
RedisGet_Any(k) ==
    IF store # {}
    THEN [some |-> TRUE, s |-> (CHOOSE e \in store : TRUE).val]
    ELSE NoBlob

\* GET key
RedisGet(k) ==
    IF \E e \in store : e.key = k
    THEN [some |-> TRUE, s |-> (CHOOSE e \in store : e.key = k).val]
    ELSE NoBlob

\* variant: the write is lost
RedisSetex_Dropped(k, ttl, v) == store

\* SETEX key ttl val
RedisSetex(k, ttl, v) ==
    {e \in store : e.key # k} \cup {[key |-> k, val |-> v, ttl |-> ttl]}

\* the entries left after d seconds
Expire(d) ==
    {[e EXCEPT !.ttl = e.ttl - d] : e \in {x \in store : x.ttl > d}}

----------------------------------------------------------------------------
(* analyze_resume, one step per external interaction *)

\* variant: the key also names the request that computed it
cache_key_PerRequest(r) == md5(<<r>> \o resume_text[r] \o jd_text[r])

\* line 88
cache_key(r) == get_cache_key(resume_text[r], jd_text[r])

response_data(r) ==
    [resume_text_preview |-> Take(resume_text[r], PreviewLen),
     extracted_info |-> extracted_info[r],
     match_result |-> match_result[r]]

\* variant: the whole document goes into the extraction prompt
extract_prompt_Whole(r) ==
    [kind |-> "extract", doc |-> resume_text[r], jd |-> <<>>]

extract_prompt(r) ==
    [kind |-> "extract", doc |-> Take(resume_text[r], ExtractDocLen), jd |-> <<>>]

match_prompt(r) ==
    [kind |-> "match", doc |-> Take(resume_text[r], MatchDocLen),
     jd |-> Take(jd_text[r], MatchJDLen)]

\* variant: the call is repeated once
call_ai_service_Retry(log, prompt) == Append(Append(log, prompt), prompt)

\* one Generation.call per call of call_ai_service
call_ai_service(log, prompt) == Append(log, prompt)

\* variant: the matching step runs whether or not a JD was given
has_jd_Always(r) == TRUE

\* if jd_text:
has_jd(r) == jd_text[r] # <<>>

\* variant: the matching step is taken before the extraction step
step_after_MatchFirst(p) ==
    CASE p = "lookup" -> "match"
      [] p = "match" -> "extract"
      [] p = "extract" -> "write"

\* the order of the statements of analyze_resume after the lookup: the
\* extraction (lines 95-116), the matching (119-137), the write (140-150)
step_after(p) ==
    CASE p = "lookup" -> "extract"
      [] p = "extract" -> "match"
      [] p = "match" -> "write"

\* what request.files and extract_text_from_pdf make of the upload
UploadKind(f) ==
    IF ~f.present THEN "missing" ELSE IF ~f.ok THEN "unreadable" ELSE "readable"

\* a response that holds a fallback record
Degraded(resp) ==
    \/ \E x \in resp.extracted_info : x[1] = "raw_text"
    \/ resp.match_result = MatchFallback

\* variant: only fully parsed responses are cached
writes_cache_OnlyParsed(r) ==
    /\ r_client # "None"
    /\ ~Degraded([resume_text_preview |-> <<>>,
                  extracted_info |-> extracted_info[r],
                  match_result |-> match_result[r]])

\* line 147: if r_client:
writes_cache(r) == r_client # "None"

\* line 89: if r_client:
reads_cache(r) == r_client # "None"

Returns(r, status, err, resp) ==
    /\ pc' = [pc EXCEPT ![r] = "done"]
    /\ result' = [result EXCEPT ![r] = [status |-> status, err |-> err, resp |-> resp]]

\* lines 74-88: the upload, the optional JD, the text of the PDF
\* variant: a failure of the PDF reader is swallowed and the run goes on
pdf_raises_Swallowed(f) == FALSE

\* lines 82-85: extract_text_from_pdf raises on a file PyPDF2 cannot read
pdf_raises(f) == ~f.ok

Accept(r, f, j) ==
    /\ cached_data' = [cached_data EXCEPT ![r] = NoBlob]
    /\ extracted_info_str' = [extracted_info_str EXCEPT ![r] = None]
    /\ extracted_info' = [extracted_info EXCEPT ![r] = {}]
    /\ match_res_str' = [match_res_str EXCEPT ![r] = None]
    /\ match_result' = [match_result EXCEPT ![r] = {}]
    /\ sent' = [sent EXCEPT ![r] = <<>>]
    /\ wrote' = [wrote EXCEPT ![r] = 0]
    /\ ops' = [ops EXCEPT ![r] = <<>>]
    /\ upload' = [upload EXCEPT ![r] = UploadKind(f)]
    /\ IF ~f.present
       THEN /\ Returns(r, 400, "No resume file provided", NoResp)
            /\ jd_text' = [jd_text EXCEPT ![r] = <<>>]
            /\ resume_text' = [resume_text EXCEPT ![r] = <<>>]
       ELSE IF pdf_raises(f)
       THEN /\ Returns(r, 500, "Failed to parse PDF", NoResp)
            /\ jd_text' = [jd_text EXCEPT ![r] = j]
            /\ resume_text' = [resume_text EXCEPT ![r] = <<>>]
       ELSE /\ pc' = [pc EXCEPT ![r] = "lookup"]
            /\ result' = [result EXCEPT ![r] = NoResult]
            /\ jd_text' = [jd_text EXCEPT ![r] = j]
            /\ resume_text' = [resume_text EXCEPT ![r] = extract_text_from_pdf(f)]
    /\ UNCHANGED <<r_client, storeUp, store, pureVars>>

Receive(r) ==
    /\ pc[r] = "idle"
    /\ \E f \in Uploads, j \in JDs : Accept(r, f, j)
    /\ UNCHANGED <<prior, age>>

\* variant: the stored value is ignored and the run goes on to the model
ReturnCached_FallsThrough(r, blob) ==
    /\ pc' = [pc EXCEPT ![r] = "extract"]
    /\ UNCHANGED result

\* lines 91-92: a stored value is returned as the response
ReturnCached(r, blob) == Returns(r, 200, "", json_loads_response(blob.s))

\* lines 89-92: the cache lookup; a hit returns the stored response
Lookup(r) ==
    /\ pc[r] = "lookup"
    /\ IF ~reads_cache(r)
       THEN /\ pc' = [pc EXCEPT ![r] = step_after("lookup")]
            /\ UNCHANGED <<cached_data, result, ops>>
       ELSE IF ~storeUp
       THEN /\ Returns(r, 500, "cache get raised", NoResp)
            /\ ops' = [ops EXCEPT ![r] = Append(@, "get")]
            /\ UNCHANGED cached_data
       ELSE /\ cached_data' = [cached_data EXCEPT ![r] = RedisGet(cache_key(r))]
            /\ ops' = [ops EXCEPT ![r] = Append(@, "get")]
            /\ IF RedisGet(cache_key(r)).some
               THEN ReturnCached(r, RedisGet(cache_key(r)))
               ELSE /\ pc' = [pc EXCEPT ![r] = step_after("lookup")]
                    /\ UNCHANGED result
    /\ UNCHANGED <<r_client, storeUp, store, jd_text, resume_text, extracted_info_str,
                   extracted_info, match_res_str, match_result, sent, wrote, upload,
                   prior, age, pureVars>>

\* lines 95-116: the extraction prompt, its one call, the parse
Extract(r) ==
    /\ pc[r] = "extract"
    /\ \E reply \in ExtractReplies :
        /\ extracted_info_str' = [extracted_info_str EXCEPT ![r] = reply]
        /\ IF parse_escapes(reply)
           THEN /\ Returns(r, 500, "unhandled exception", NoResp)
                /\ UNCHANGED extracted_info
           ELSE /\ extracted_info' =
                     [extracted_info EXCEPT ![r] = parse_extracted_info(reply)]
                /\ pc' = [pc EXCEPT ![r] = step_after("extract")]
                /\ UNCHANGED result
    /\ sent' = [sent EXCEPT ![r] = call_ai_service(@, extract_prompt(r))]
    /\ ops' = [ops EXCEPT ![r] = @ \o <<"extract", "extract returned">>]
    /\ UNCHANGED <<r_client, storeUp, store, jd_text, resume_text, cached_data,
                   match_res_str, match_result, wrote, upload, prior, age, pureVars>>

\* lines 119-137: the matching prompt and its one call, when a JD was given
Match(r) ==
    /\ pc[r] = "match"
    /\ IF has_jd(r)
       THEN /\ \E reply \in MatchReplies :
                /\ match_res_str' = [match_res_str EXCEPT ![r] = reply]
                /\ IF parse_escapes(reply)
                   THEN /\ Returns(r, 500, "unhandled exception", NoResp)
                        /\ UNCHANGED match_result
                   ELSE /\ match_result' =
                             [match_result EXCEPT ![r] = parse_match_result(reply)]
                        /\ pc' = [pc EXCEPT ![r] = step_after("match")]
                        /\ UNCHANGED result
            /\ sent' = [sent EXCEPT ![r] = call_ai_service(@, match_prompt(r))]
            /\ ops' = [ops EXCEPT ![r] = @ \o <<"match", "match returned">>]
       ELSE /\ match_result' = [match_result EXCEPT ![r] = EmptyDict]
            /\ pc' = [pc EXCEPT ![r] = step_after("match")]
            /\ UNCHANGED <<match_res_str, sent, result, ops>>
    /\ UNCHANGED <<r_client, storeUp, store, jd_text, resume_text, cached_data,
                   extracted_info_str, extracted_info, wrote, upload, prior, age,
                   pureVars>>

\* lines 140-150: the response, the cache write, the return
Write(r) ==
    /\ pc[r] = "write"
    /\ IF ~writes_cache(r)
       THEN /\ Returns(r, 200, "", response_data(r))
            /\ UNCHANGED <<store, wrote, ops>>
       ELSE IF ~storeUp
       THEN /\ Returns(r, 500, "cache setex raised", NoResp)
            /\ ops' = [ops EXCEPT ![r] = Append(@, "setex")]
            /\ UNCHANGED <<store, wrote>>
       ELSE /\ store' = RedisSetex(cache_key(r), TTL, json_dumps(response_data(r)))
            /\ wrote' = [wrote EXCEPT ![r] = @ + 1]
            /\ ops' = [ops EXCEPT ![r] = Append(@, "setex")]
            /\ Returns(r, 200, "", response_data(r))
    /\ UNCHANGED <<r_client, storeUp, jd_text, resume_text, cached_data,
                   extracted_info_str, extracted_info, match_res_str, match_result,
                   sent, upload, prior, age, pureVars>>

\* the handler has returned; the slot takes the next request
Finish(r) ==
    /\ pc[r] = "done"
    /\ pc' = [pc EXCEPT ![r] = "idle"]
    /\ jd_text' = [jd_text EXCEPT ![r] = <<>>]
    /\ resume_text' = [resume_text EXCEPT ![r] = <<>>]
    /\ cached_data' = [cached_data EXCEPT ![r] = NoBlob]
    /\ extracted_info_str' = [extracted_info_str EXCEPT ![r] = None]
    /\ extracted_info' = [extracted_info EXCEPT ![r] = {}]
    /\ match_res_str' = [match_res_str EXCEPT ![r] = None]
    /\ match_result' = [match_result EXCEPT ![r] = {}]
    /\ sent' = [sent EXCEPT ![r] = <<>>]
    /\ wrote' = [wrote EXCEPT ![r] = 0]
    /\ result' = [result EXCEPT ![r] = NoResult]
    /\ ops' = [ops EXCEPT ![r] = <<>>]
    /\ upload' = [upload EXCEPT ![r] = "none"]
    /\ prior' = [prior EXCEPT ![r] = NoPrior]
    /\ age' = [age EXCEPT ![r] = 0]
    /\ UNCHANGED <<r_client, storeUp, store, pureVars>>

----------------------------------------------------------------------------
(* The environment of the handler *)

\* the Redis server stops answering: get and setex raise
StoreFail ==
    /\ storeUp
    /\ storeUp' = FALSE
    /\ UNCHANGED <<r_client, store, reqVars, prior, age, pureVars>>

StoreRecover ==
    /\ ~storeUp
    /\ storeUp' = TRUE
    /\ UNCHANGED <<r_client, store, reqVars, prior, age, pureVars>>

\* TickSecs seconds pass: entries count down and expire
TimePasses ==
    /\ store # {}
    /\ store' = Expire(TickSecs)
    /\ UNCHANGED <<r_client, storeUp, reqVars, prior, age, pureVars>>

Next ==
    \/ \E r \in SeqReqs : Receive(r)
    \/ \E r \in SeqReqs : Lookup(r)
    \/ \E r \in SeqReqs : Extract(r)
    \/ \E r \in SeqReqs : Match(r)
    \/ \E r \in SeqReqs : Write(r)
    \/ \E r \in SeqReqs : Finish(r)
    \/ StoreFail
    \/ StoreRecover
    \/ TimePasses

Spec == Init /\ [][Next]_vars

----------------------------------------------------------------------------
(* Runs one after the other in one slot, each remembering the run before it *)

Min(a, b) == IF a < b THEN a ELSE b

\* what the slot remembers of the run that has just returned, when the
\* next request brings the same text and the same JD
Remember(r, f, j) ==
    IF /\ f.present
       /\ f.ok
       /\ result[r].status = 200
       /\ extract_text_from_pdf(f) = resume_text[r]
       /\ j = jd_text[r]
    THEN [valid |-> TRUE, wrote |-> wrote[r] > 0, resp |-> result[r].resp,
          sent |-> sent[r], age |-> age[r]]
    ELSE NoPrior

\* the next request arrives in the slot as soon as the last has returned
RunAgain(r) ==
    /\ pc[r] = "done"
    /\ \E f \in Uploads, j \in JDs :
        /\ Accept(r, f, j)
        /\ prior' = [prior EXCEPT ![r] = Remember(r, f, j)]
    /\ age' = [age EXCEPT ![r] = 0]

\* TickSecs seconds pass, counted from the return of a run to the lookup
\* of the next
TimePassesTracked ==
    /\ store' = Expire(TickSecs)
    /\ age' = [r \in Reqs |->
                IF pc[r] = "done" /\ result[r].status = 200
                THEN Min(age[r] + TickSecs, TTL) ELSE age[r]]
    /\ prior' = [r \in Reqs |->
                  IF pc[r] = "lookup" /\ prior[r].valid
                  THEN [prior[r] EXCEPT !.age = Min(@ + TickSecs, TTL)]
                  ELSE prior[r]]
    /\ UNCHANGED <<r_client, storeUp, reqVars, pureVars>>

NextIdem ==
    \/ \E r \in SeqReqs : Receive(r)
    \/ \E r \in SeqReqs : RunAgain(r)
    \/ \E r \in SeqReqs : Lookup(r)
    \/ \E r \in SeqReqs : Extract(r)
    \/ \E r \in SeqReqs : Match(r)
    \/ \E r \in SeqReqs : Write(r)
    \/ StoreFail
    \/ StoreRecover
    \/ TimePassesTracked

SpecIdem == Init /\ [][NextIdem]_vars

----------------------------------------------------------------------------
(* get_cache_key on two pairs of texts *)

KeyChars == {"a", "b"}
KeyTexts == UNION {[1..n -> KeyChars] : n \in 0..MaxKeyLen}

InitKey ==
    /\ r_client = "None"
    /\ storeUp = TRUE
    /\ store = {}
    /\ InitReqs
    /\ keyArgs \in [d1 : KeyTexts, j1 : KeyTexts, d2 : KeyTexts, j2 : KeyTexts]
    /\ keyRes = NoKeyRes
    /\ sanArgs = NoSanArgs
    /\ sanRes = NoSanRes
    /\ startup = "untracked"

ComputeKeys ==
    /\ ~keyRes.done
    /\ keyRes' = [done |-> TRUE,
                  k1 |-> get_cache_key(keyArgs.d1, keyArgs.j1),
                  k2 |-> get_cache_key(keyArgs.d2, keyArgs.j2)]
    /\ UNCHANGED <<r_client, storeUp, store, reqVars, prior, age, keyArgs, sanArgs, sanRes,
                   startup>>

SpecKey == InitKey /\ [][ComputeKeys]_vars

----------------------------------------------------------------------------
(* The fence-strip-and-parse step on one reply, at either call site *)

TokenSeqs == UNION {[1..n -> Tokens] : n \in 0..MaxOut}
SanInputs == {None} \cup {Some(t) : t \in TokenSeqs} \cup ExtractReplies \cup MatchReplies

InitSan ==
    /\ r_client = "None"
    /\ storeUp = TRUE
    /\ store = {}
    /\ InitReqs
    /\ keyArgs = NoKeyArgs
    /\ keyRes = NoKeyRes
    /\ sanArgs \in [site : {"extract", "match"}, raw : SanInputs]
    /\ sanRes = NoSanRes
    /\ startup = "untracked"

Sanitize ==
    /\ ~sanRes.done
    /\ sanRes' = [done |-> TRUE,
                  raised |-> parse_escapes(sanArgs.raw),
                  value |-> IF parse_escapes(sanArgs.raw) THEN {}
                            ELSE IF sanArgs.site = "extract"
                                 THEN parse_extracted_info(sanArgs.raw)
                                 ELSE parse_match_result(sanArgs.raw)]
    /\ UNCHANGED <<r_client, storeUp, store, reqVars, prior, age, keyArgs, keyRes, sanArgs,
                   startup>>

SpecSan == InitSan /\ [][Sanitize]_vars

----------------------------------------------------------------------------
(* The handler on texts as long as its truncation limits. The process runs
   with REDIS_HOST unset, and each request brings a document and a JD whose
   lengths lie within MaxOver of one of the limits of lines 97, 123, 124
   and 141. *)

TruncLimits == {PreviewLen, MatchJDLen, MatchDocLen, ExtractDocLen}
LongLens == {L + d : L \in TruncLimits, d \in (0 - MaxOver)..MaxOver}

\* a text of n characters that no shift by one or two maps onto itself
LongText(n) ==
    [i \in 1..n |-> IF i % 3 = 1 THEN "a" ELSE IF i % 3 = 2 THEN "b" ELSE "c"]

LongUploads ==
    {[present |-> TRUE, ok |-> TRUE, pages |-> <<Some(LongText(n))>>] : n \in LongLens}
LongJDs == {LongText(n) : n \in LongLens \cup {0}}

InitTrunc ==
    /\ r_client = InitClient("None", FALSE)
    /\ storeUp \in BOOLEAN
    /\ store = {}
    /\ InitReqs
    /\ InitPure

ReceiveLong(r) ==
    /\ pc[r] = "idle"
    /\ \E f \in LongUploads, j \in LongJDs : Accept(r, f, j)
    /\ UNCHANGED <<prior, age>>

NextTrunc ==
    \E r \in SeqReqs :
        \/ ReceiveLong(r)
        \/ Lookup(r)
        \/ Extract(r)
        \/ Match(r)
        \/ Write(r)
        \/ Finish(r)

SpecTrunc == InitTrunc /\ [][NextTrunc]_vars

----------------------------------------------------------------------------
(* Two requests served at the same time by two workers of the process, each
   request bringing the same document; the steps of the two interleave
   freely and no time passes between them. *)

ConcUploads == {PdfA, PdfASpaced, PdfAB}

ReceiveConc(r) ==
    /\ pc[r] = "idle"
    /\ \E f \in ConcUploads, j \in JDs : Accept(r, f, j)
    /\ UNCHANGED <<prior, age>>

NextConc ==
    \/ \E r \in Reqs : ReceiveConc(r)
    \/ \E r \in Reqs : Lookup(r)
    \/ \E r \in Reqs : Extract(r)
    \/ \E r \in Reqs : Match(r)
    \/ \E r \in Reqs : Write(r)
    \/ StoreFail
    \/ StoreRecover

SpecConc == Init /\ [][NextConc]_vars

----------------------------------------------------------------------------
(* The same process, remembering what it found when it started: no host
   configured, a host whose Redis server did not answer, or one that did *)

StartupFound(host, up) ==
    IF host = "" \/ host = "None" THEN "absent"
    ELSE IF up THEN "reachable" ELSE "unreachable"

InitStart ==
    /\ \E h \in Hosts, x \in BOOLEAN, up \in BOOLEAN :
           /\ r_client = InitClient(h, x)
           /\ storeUp = up
           /\ startup = StartupFound(h, up)
    /\ store = {}
    /\ InitReqs
    /\ keyArgs = NoKeyArgs
    /\ keyRes = NoKeyRes
    /\ sanArgs = NoSanArgs
    /\ sanRes = NoSanRes

SpecStart == InitStart /\ [][Next]_vars

----------------------------------------------------------------------------
(* Where a request is *)

\* the lookup of the request returned a stored value
Hit(r) == cached_data[r].some

\* the request has ended after its lookup missed (or the cache is off)
DoneAfterMiss(r) ==
    /\ pc[r] = "done"
    /\ ~Hit(r)
    /\ result[r].err \notin
         {"No resume file provided", "Failed to parse PDF", "cache get raised"}

\* the request returned an AnalysisResponse
Responded(r) == pc[r] = "done" /\ result[r].status = 200

PastExtract(r) == pc[r] \in {"match", "write"} \/ DoneAfterMiss(r)
PastMatch(r) == pc[r] = "write" \/ DoneAfterMiss(r)

Kinds(log) == [i \in 1..Len(log) |-> log[i].kind]

----------------------------------------------------------------------------
(* C1..C10 *)

\* C1: when the lookup of a request returns a stored value, the request
\* ends there, returning the stored response deserialized, having made no
\* completion call and no cache write.
C1_HitReturnsStored ==
    \A r \in Reqs :
        Hit(r) =>
            /\ pc[r] = "done"
            /\ result[r] = [status |-> 200, err |-> "",
                            resp |-> json_loads_response(cached_data[r].s)]
            /\ sent[r] = <<>>
            /\ wrote[r] = 0

C1_Witness ==
    \E r \in Reqs :
        /\ Hit(r)
        /\ Responded(r)
        /\ result[r].resp.extracted_info = JSONValue(InfoJSON)

CountKind(log, k) == Cardinality({i \in 1..Len(log) : log[i].kind = k})

\* C2: when a run follows, within 3600 seconds, a run that returned a
\* response for the same document and JD, the two runs together make at
\* most one extraction call and at most one matching call, and the second
\* run returns a response equal to that of the first (a second run that
\* ends in an exception of the cache client is left to C3).
C2_SecondRunFree ==
    \A r \in Reqs :
        (pc[r] = "done" /\ prior[r].valid /\ prior[r].age < 3600) =>
            /\ CountKind(prior[r].sent \o sent[r], "extract") <= 1
            /\ CountKind(prior[r].sent \o sent[r], "match") <= 1
            /\ result[r].err \notin {"cache get raised", "cache setex raised"} =>
                  /\ result[r].status = 200
                  /\ result[r].resp = prior[r].resp

\* C2 as amended: when the first run missed the cache and wrote its
\* response to it, and the second run looks the key up less than 3600
\* seconds after that write, the second run makes no completion call, so
\* that the two together make at most one call pair, and if the second
\* run returns a response it is equal to that of the first.
C2_SecondRunFreeWhenCached ==
    \A r \in Reqs :
        (pc[r] = "done" /\ prior[r].valid /\ prior[r].wrote /\ prior[r].age < 3600) =>
            /\ sent[r] = <<>>
            /\ CountKind(prior[r].sent \o sent[r], "extract") <= 1
            /\ CountKind(prior[r].sent \o sent[r], "match") <= 1
            /\ result[r].status \in {200, 500}
            /\ result[r].status = 500 => result[r].err = "cache get raised"
            /\ result[r].status = 200 => result[r].resp = prior[r].resp

C2_Witness ==
    \E r \in Reqs :
        /\ Responded(r)
        /\ prior[r].valid
        /\ prior[r].wrote
        /\ prior[r].age > 0
        /\ prior[r].age < 3600
        /\ Kinds(prior[r].sent) = <<"extract", "match">>
        /\ sent[r] = <<>>
        /\ result[r].resp = prior[r].resp

\* C3: no request ends with an error that comes from the cache: a get or
\* a setex on an unreachable store does not raise into the request.
C3_CacheNeverSurfaced ==
    \A r \in Reqs :
        pc[r] = "done" =>
            result[r].err \notin {"cache get raised", "cache setex raised"}

\* C4: a failed completion call (None) never aborts the request: a failed
\* extraction call leaves extracted_info = {raw_text: None}, a failed
\* matching call leaves match_result = {score: 0, analysis: "AI Parsing
\* Error"}, the only errors a request ends with are the missing upload,
\* the unreadable document and an exception of the cache client, and a
\* run that ends otherwise returns the full response built from both.
C4_CompletionFailureRecovered ==
    \A r \in Reqs :
        /\ (PastExtract(r) /\ ~extracted_info_str[r].some) =>
               extracted_info[r] = {<<"raw_text", "null", 0, <<>>>>}
        /\ (PastMatch(r) /\ jd_text[r] # <<>> /\ ~match_res_str[r].some) =>
               match_result[r] =
                   {<<"score", "int", 0, <<>>>>,
                    <<"analysis", "str", 0, <<"AI Parsing Error">>>>}
        /\ (pc[r] = "done" /\ result[r].status # 200) =>
               result[r].err \in {"No resume file provided", "Failed to parse PDF",
                                  "cache get raised", "cache setex raised"}
        /\ (pc[r] = "done" /\ sent[r] # <<>>) => DoneAfterMiss(r)
        /\ (DoneAfterMiss(r) /\ result[r].err # "cache setex raised") =>
               /\ result[r].status = 200
               /\ result[r].resp =
                     [resume_text_preview |-> Take(resume_text[r], PreviewLen),
                      extracted_info |-> extracted_info[r],
                      match_result |-> match_result[r]]

C4_Witness ==
    \E r \in Reqs :
        /\ Responded(r)
        /\ Kinds(sent[r]) = <<"extract", "match">>
        /\ ~extracted_info_str[r].some
        /\ ~match_res_str[r].some
        /\ result[r].resp.extracted_info = {<<"raw_text", "null", 0, <<>>>>}
        /\ result[r].resp.match_result = MatchFallback

\* C5: get_cache_key gives two pairs the same key exactly when the two
\* documents are equal and the two JDs are equal.
C5_KeyInjectiveOnPairs ==
    keyRes.done =>
        ((keyRes.k1 = keyRes.k2) <=>
            (keyArgs.d1 = keyArgs.d2 /\ keyArgs.j1 = keyArgs.j2))

\* C6: every AnalysisResponse a request returns, computed or cached, has
\* as preview the first 200 characters of the text of the document of
\* that request.
C6_PreviewOfOwnDocument ==
    \A r \in Reqs :
        Responded(r) =>
            result[r].resp.resume_text_preview = Take(resume_text[r], PreviewLen)

\* a record with an integer score in [0,100] and a string analysis
IsScoreRecord(v) ==
    /\ Cardinality(v) = 2
    /\ \E x \in v : x[1] = "score" /\ x[2] = "int" /\ x[3] \in 0..100
    /\ \E y \in v : y[1] = "analysis" /\ y[2] = "str"

\* a record with the six fields the extraction prompt asks for
IsInfoRecord(v) ==
    /\ Cardinality(v) = 6
    /\ \A k \in {"name", "phone", "email", "education"} :
          \E x \in v : x[1] = k /\ x[2] = "str"
    /\ \E x \in v : x[1] = "experience_years" /\ x[2] = "int"
    /\ \E x \in v : x[1] = "skills" /\ x[2] = "list"

MatchesSchema(site, v) ==
    IF site = "extract" THEN IsInfoRecord(v) ELSE IsScoreRecord(v)

\* the reply without its fence markers: every fence, and the word json
\* that directly follows a fence
RECURSIVE Unfenced(_, _)
Unfenced(t, afterFence) ==
    IF t = <<>> THEN <<>>
    ELSE IF Head(t) = TICKS THEN Unfenced(Tail(t), TRUE)
    ELSE IF Head(t) = JSONWORD /\ afterFence THEN Unfenced(Tail(t), FALSE)
    ELSE <<Head(t)>> \o Unfenced(Tail(t), FALSE)

NotWS(x) == x # WS

\* the text is one JSON document, white space aside
IsJSONText(t) ==
    /\ Len(SelectSeq(t, NotWS)) = 1
    /\ SelectSeq(t, NotWS)[1] \in JSONDocs

ValueOfJSONText(t) == JSONValue(SelectSeq(t, NotWS)[1])

FallbackAt(site, raw) ==
    IF site = "match"
    THEN {<<"score", "int", 0, <<>>>>, <<"analysis", "str", 0, <<"AI Parsing Error">>>>}
    ELSE IF raw.some THEN {<<"raw_text", "str", 0, raw.s>>}
    ELSE {<<"raw_text", "null", 0, <<>>>>}

C8_MatchResultWellFormed ==
    \A r \in Reqs :
        (Responded(r) /\ jd_text[r] # <<>>) =>
            \/ IsScoreRecord(result[r].resp.match_result)
            \/ result[r].resp.match_result = MatchFallback

\* C9: a matching call is made only by a request with a non-empty JD; a
\* run that missed the cache with an empty JD has made the extraction call
\* only and its match_result, also in the response, is the empty record.
C9_NoMatchingWithoutJD ==
    \A r \in Reqs :
        /\ (\E i \in 1..Len(sent[r]) : sent[r][i].kind = "match") => jd_text[r] # <<>>
        /\ (PastMatch(r) /\ jd_text[r] = <<>>) =>
               /\ Kinds(sent[r]) = <<"extract">>
               /\ match_result[r] = {}
               /\ match_res_str[r] = None
               /\ Responded(r) => result[r].resp.match_result = {}

C9_Witness ==
    \E r \in Reqs :
        /\ Responded(r)
        /\ DoneAfterMiss(r)
        /\ jd_text[r] = <<>>
        /\ Kinds(sent[r]) = <<"extract">>
        /\ result[r].resp.match_result = {}

\* C10: a run sends the extraction prompt exactly once and the matching
\* prompt exactly once when the JD is non-empty and never otherwise, also
\* when a call fails; before the lookup has missed nothing is sent, and a
\* run never makes more than two completion calls.
C10_NoRetries ==
    \A r \in Reqs :
        /\ Len(sent[r]) <= 2
        /\ (pc[r] \in {"idle", "lookup", "extract"} \/ (pc[r] = "done" /\ ~DoneAfterMiss(r)))
               => sent[r] = <<>>
        /\ pc[r] = "match" => sent[r] = <<extract_prompt(r)>>
        /\ PastMatch(r) =>
               sent[r] = IF jd_text[r] # <<>>
                         THEN <<extract_prompt(r), match_prompt(r)>>
                         ELSE <<extract_prompt(r)>>

C10_Witness ==
    \E r \in Reqs :
        /\ DoneAfterMiss(r)
        /\ ~extracted_info_str[r].some
        /\ jd_text[r] # <<>>
        /\ ~match_res_str[r].some
        /\ Kinds(sent[r]) = <<"extract", "match">>

\* the entry the store holds under a key, in the store of a given state
EntryIn(st, k) ==
    IF \E e \in st : e.key = k
    THEN Some(CHOOSE e \in st : e.key = k)
    ELSE None

\* the step in which request r is received
ReceivedNow(r) == pc[r] = "idle" /\ pc'[r] # "idle"

\* C11: a request that brings no file, or a file that cannot be turned into
\* text, ends at once with an explicit error (400 for the missing file, 500
\* for the unreadable one) and no AnalysisResponse, not a partial one; it
\* makes no completion call, no cache get and no cache setex, and the step
\* that answers it leaves every cache entry as it was.
C11_RejectedBeforeAnyWork ==
    /\ [](\A r \in Reqs :
            upload[r] \in {"missing", "unreadable"} =>
                /\ pc[r] = "done"
                /\ result[r].status = (IF upload[r] = "missing" THEN 400 ELSE 500)
                /\ result[r].err = (IF upload[r] = "missing"
                                    THEN "No resume file provided"
                                    ELSE "Failed to parse PDF")
                /\ result[r].resp = NoResp
                /\ sent[r] = <<>>
                /\ ops[r] = <<>>
                /\ wrote[r] = 0
                /\ ~cached_data[r].some)
    /\ [][\A r \in Reqs :
            (ReceivedNow(r) /\ upload'[r] \in {"missing", "unreadable"})
                => store' = store]_vars

C11_Witness ==
    /\ \E r \in Reqs :
           /\ upload[r] = "unreadable"
           /\ pc[r] = "done"
           /\ result[r].status = 500
           /\ r_client = "Redis"
           /\ storeUp
    /\ store # {}

IsPrefix(p, s) == Len(p) <= Len(s) /\ p = SubSeq(s, 1, Len(p))

ShorterOf(a, b) == IF a < b THEN a ELSE b

\* C12: every extraction prompt a request sends embeds the first 2500
\* characters of its normalized document text, or the whole text when it
\* is shorter; every matching prompt embeds the first 2000 characters of
\* the document and the first 1000 characters of the JD, or the whole of
\* either when shorter. Each embedded piece is a prefix of its input.
C12_PromptsTruncated ==
    \A r \in Reqs : \A i \in 1..Len(sent[r]) :
        LET p == sent[r][i] IN
        /\ p.kind = "extract" =>
               /\ Len(p.doc) = ShorterOf(2500, Len(resume_text[r]))
               /\ IsPrefix(p.doc, resume_text[r])
        /\ p.kind = "match" =>
               /\ Len(p.doc) = ShorterOf(2000, Len(resume_text[r]))
               /\ IsPrefix(p.doc, resume_text[r])
               /\ Len(p.jd) = ShorterOf(1000, Len(jd_text[r]))
               /\ IsPrefix(p.jd, jd_text[r])

C12_Witness ==
    \E r \in Reqs :
        /\ Len(resume_text[r]) > 2500
        /\ Len(jd_text[r]) > 1000
        /\ Kinds(sent[r]) = <<"extract", "match">>
        /\ Len(sent[r][1].doc) = 2500
        /\ Len(sent[r][2].doc) = 2000
        /\ Len(sent[r][2].jd) = 1000

\* the step in which request r stores its response
WritesNow(r) == pc[r] = "write" /\ wrote'[r] = wrote[r] + 1

\* q has stored its response, for the same pair as r, after it missed, and
\* r, which missed too, has its own response to store
FirstOfTwo(q, r) ==
    /\ q # r
    /\ pc[q] = "done" /\ ~Hit(q) /\ wrote[q] = 1
    /\ resume_text[q] = resume_text[r]
    /\ jd_text[q] = jd_text[r]

\* C13: when two requests with the same pair run at the same time and both
\* miss, the entry the second one writes has the same value as the entry
\* it overwrites: the stored AnalysisResponse is the same whichever request
\* writes last.
C13_SecondWriteEquivalent ==
    [][\A q, r \in Reqs :
          (FirstOfTwo(q, r) /\ WritesNow(r)) =>
              LET k == get_cache_key(resume_text[r], jd_text[r]) IN
              /\ EntryIn(store, k).some
              /\ EntryIn(store', k).some
              /\ EntryIn(store', k).s.val = EntryIn(store, k).s.val]_vars

\* C13 as amended: each of the two requests makes its own completion calls
\* and each writes the entry of the shared key; the second write replaces
\* the first entry with the serialization of the second writer's own
\* response, with a fresh TTL, and the two values are equal when the two
\* requests got the same completion replies.
C13_LastWriterWins ==
    [][\A q, r \in Reqs :
          (FirstOfTwo(q, r) /\ WritesNow(r)) =>
              LET k == get_cache_key(resume_text[r], jd_text[r]) IN
              /\ sent[q] = sent[r]
              /\ Len(sent[r]) = (IF jd_text[r] # <<>> THEN 2 ELSE 1)
              /\ EntryIn(store, k).some
              /\ EntryIn(store', k).some
              /\ EntryIn(store, k).s.val = json_dumps(result[q].resp)
              /\ EntryIn(store', k).s.val = json_dumps(result'[r].resp)
              /\ EntryIn(store', k).s.ttl = 3600
              /\ \A e \in store' : e.key = k => e = EntryIn(store', k).s
              /\ (extracted_info_str[q] = extracted_info_str[r]
                  /\ match_res_str[q] = match_res_str[r])
                     => EntryIn(store', k).s.val = EntryIn(store, k).s.val]_vars

C13_Witness ==
    \E q, r \in Reqs :
        /\ q # r
        /\ resume_text[q] = resume_text[r] /\ jd_text[q] = jd_text[r]
        /\ DoneAfterMiss(q) /\ DoneAfterMiss(r)
        /\ wrote[q] = 1 /\ wrote[r] = 1
        /\ sent[q] # <<>> /\ sent[r] # <<>>
        /\ result[q].resp # result[r].resp
        /\ EntryIn(store, get_cache_key(resume_text[r], jd_text[r])).s.val
               = json_dumps(result[r].resp)

\* the calls of a run that missed, up to the return of its last completion
CallsBeforeWrite(r) ==
    (IF r_client # "None" THEN <<"get">> ELSE <<>>)
    \o <<"extract", "extract returned">>
    \o (IF jd_text[r] # <<>> THEN <<"match", "match returned">> ELSE <<>>)

\* C14: a run that misses with the cache enabled writes the cache exactly
\* once, after all its completion calls have returned: the one setex
\* stores, under the key of the request, the serialization of exactly the
\* AnalysisResponse the run returns, built from the parsed (or fallback)
\* results of all its calls, with a TTL of 3600 seconds. Nothing is written
\* before that step, a hit writes nothing, and the store changes only by
\* such a write or by the passing of time. The one setex is called also
\* when Redis cannot be reached; it then stores nothing and the run ends
\* with the error of the cache.
C14_WriteThrough ==
    /\ [](\A r \in Reqs :
            /\ wrote[r] <= 1
            /\ pc[r] # "done" => (wrote[r] = 0 /\ \A i \in 1..Len(ops[r]) : ops[r][i] # "setex")
            /\ Hit(r) => wrote[r] = 0
            /\ (r_client # "None" /\ DoneAfterMiss(r)) =>
                   /\ ops[r] = CallsBeforeWrite(r) \o <<"setex">>
                   /\ wrote[r] = (IF Responded(r) THEN 1 ELSE 0)
                   /\ ~Responded(r) => result[r].err = "cache setex raised")
    /\ [][/\ \A r \in Reqs : WritesNow(r) =>
                LET k == get_cache_key(resume_text[r], jd_text[r]) IN
                /\ ops[r] = CallsBeforeWrite(r)
                /\ result'[r].status = 200
                /\ EntryIn(store', k).some
                /\ EntryIn(store', k).s.ttl = 3600
                /\ EntryIn(store', k).s.val[1] = "json"
                /\ json_loads_response(EntryIn(store', k).s.val) = result'[r].resp
                /\ result'[r].resp.extracted_info
                       = parse_extracted_info(extracted_info_str[r])
                /\ result'[r].resp.match_result
                       = (IF jd_text[r] # <<>>
                          THEN parse_match_result(match_res_str[r]) ELSE {})
          /\ store' # store =>
                \/ \E r \in Reqs : WritesNow(r)
                \/ store' = Expire(TickSecs)]_vars

C14_Witness ==
    \E r \in Reqs :
        /\ r_client # "None"
        /\ DoneAfterMiss(r)
        /\ Responded(r)
        /\ jd_text[r] # <<>>
        /\ wrote[r] = 1
        /\ result[r].resp.match_result # {}
        /\ EntryIn(store, get_cache_key(resume_text[r], jd_text[r])).s
               = [key |-> get_cache_key(resume_text[r], jd_text[r]),
                  val |-> json_dumps(result[r].resp), ttl |-> 3600]

\* C15: the cache mode is fixed when the process starts; when no host is
\* configured, or the connection fails at startup, the cache is off for as
\* long as the process lives: no request reads or writes the cache, and
\* every request with a readable document ends with an AnalysisResponse.
C15_DisabledForLifetime ==
    \A r \in Reqs :
        startup \in {"absent", "unreachable"} =>
            /\ \A i \in 1..Len(ops[r]) : ops[r][i] \notin {"get", "setex"}
            /\ ~Hit(r)
            /\ wrote[r] = 0
            /\ (pc[r] = "done" /\ upload[r] = "readable") => Responded(r)

\* every call of a run that misses, in the order of analyze_resume
AllCalls(r) ==
    CallsBeforeWrite(r) \o (IF r_client # "None" THEN <<"setex">> ELSE <<>>)

\* C16: the steps of one request are strictly ordered, whatever other
\* requests do meanwhile: the cache get has completed before the first
\* completion call starts, the extraction call has returned before the
\* matching call is issued, and the setex comes only after the last
\* completion call has returned. The calls a request has made so far are
\* always an initial part of get, extract, match, setex.
C16_StepsInOrder ==
    \A r \in Reqs :
        /\ IsPrefix(ops[r], AllCalls(r))
        /\ pc[r] \in {"idle", "lookup"} => ops[r] = <<>>
        /\ pc[r] = "extract" =>
               ops[r] = (IF r_client # "None" THEN <<"get">> ELSE <<>>)
        /\ pc[r] = "match" =>
               ops[r] = (IF r_client # "None" THEN <<"get">> ELSE <<>>)
                            \o <<"extract", "extract returned">>
        /\ pc[r] = "write" => ops[r] = CallsBeforeWrite(r)
        /\ \A i, j \in 1..Len(ops[r]) :
               /\ (ops[r][i] = "get" /\ ops[r][j] \in {"extract", "match"}) => i < j
               /\ (ops[r][i] = "extract returned" /\ ops[r][j] = "match") => i < j
               /\ (ops[r][i] \in {"extract returned", "match returned"}
                   /\ ops[r][j] = "setex") => i < j

C16_Witness ==
    \E q, r \in Reqs :
        /\ q # r
        /\ pc[r] = "done"
        /\ ops[r] = <<"get", "extract", "extract returned",
                      "match", "match returned", "setex">>
        /\ pc[q] = "match"
        /\ ops[q] = <<"get", "extract", "extract returned">>

\* C17: a degraded response is cached like any other. With the cache
\* enabled, a run that missed and returns a response holding a fallback
\* record (a completion call failed or its text did not parse) has stored
\* that response under its key for 3600 seconds: the entry is there, with
\* the seconds left, until 3600 seconds have passed. A later run for the
\* same pair inside that time makes no completion call and no write, and
\* the response it returns is the stored fallback response.
C17_FallbackCached ==
    \A r \in Reqs :
        /\ (r_client # "None" /\ DoneAfterMiss(r) /\ Responded(r)
            /\ Degraded(result[r].resp)) =>
               LET k == get_cache_key(resume_text[r], jd_text[r]) IN
               /\ wrote[r] = 1
               /\ age[r] < 3600 =>
                      EntryIn(store, k) =
                          Some([key |-> k, val |-> json_dumps(result[r].resp),
                                ttl |-> 3600 - age[r]])
               /\ age[r] >= 3600 => ~EntryIn(store, k).some
        /\ (pc[r] = "done" /\ prior[r].valid /\ prior[r].wrote
            /\ Degraded(prior[r].resp) /\ prior[r].age < 3600) =>
               /\ sent[r] = <<>>
               /\ wrote[r] = 0
               /\ ops[r] = <<"get">>
               /\ Responded(r) => (Hit(r) /\ result[r].resp = prior[r].resp)
               /\ ~Responded(r) => result[r].err = "cache get raised"

C17_Witness ==
    \E r \in Reqs :
        /\ Responded(r)
        /\ Hit(r)
        /\ prior[r].valid
        /\ prior[r].wrote
        /\ prior[r].sent # <<>>
        /\ Degraded(prior[r].resp)
        /\ prior[r].resp.match_result = MatchFallback
        /\ prior[r].age > 0
        /\ prior[r].age < 3600
        /\ sent[r] = <<>>
        /\ result[r].resp = prior[r].resp

\* C18: a request touches no entry but the one under get_cache_key of its
\* own text and JD. What its lookup reads is the value under that key; its
\* write replaces the entry under that key and leaves every other entry as
\* it was; every other step of the request, a hit among them, leaves the
\* whole store as it was: a hit neither rewrites the entry nor renews its
\* time to live.
C18_OnlyOwnEntry ==
    [][\A r \in Reqs :
          pc'[r] # pc[r] =>
              LET k == get_cache_key(resume_text[r], jd_text[r]) IN
              /\ \A e \in store : e.key # k => e \in store'
              /\ \A e \in store' : e.key # k => e \in store
              /\ ~WritesNow(r) => store' = store
              /\ (pc[r] = "lookup" /\ ops'[r] = <<"get">> /\ storeUp) =>
                     /\ cached_data'[r].some = EntryIn(store, k).some
                     /\ cached_data'[r].some =>
                            /\ cached_data'[r].s = EntryIn(store, k).s.val
                            /\ result'[r].resp = json_loads_response(EntryIn(store, k).s.val)
                            /\ EntryIn(store', k) = EntryIn(store, k)]_vars

C18_Witness ==
    \E r \in Reqs :
        LET k == get_cache_key(resume_text[r], jd_text[r]) IN
        /\ pc[r] = "done"
        /\ Hit(r)
        /\ Responded(r)
        /\ Cardinality(store) >= 2
        /\ EntryIn(store, k).some
        /\ EntryIn(store, k).s.ttl < 3600
        /\ EntryIn(store, k).s.val = json_dumps(result[r].resp)
        /\ \E e \in store : e.key # k /\ e.ttl = 3600

====
